---- MODULE Spec2Model ----
(***************************************************************************)
(* Model of hass_nabucasa/remote.py: the RemoteUI manager.                 *)
(*                                                                         *)
(* The three coroutines load_backend, close_backend and                    *)
(* handle_connection_requests run on one asyncio event loop: the code      *)
(* between two awaits is one atomic step, and at every await any other     *)
(* call may run.  Each call is a task with a position (pc) at the await it *)
(* is suspended in.  What the collaborators answer (HTTP status, timeout,  *)
(* certificate validity, failures of issue/load_cert_chain/start/stop/     *)
(* connect)                                                                *)
(* is chosen nondeterministically.  The backend's answers are well formed: *)
(* resp.json() delivers a body with the keys the code reads.               *)
(***************************************************************************)
EXTENDS Integers, Sequences, FiniteSets, TLC

\* Number of calls of the manager's coroutines in one behaviour.
MaxCalls == 3
\* Number of calls in progress (suspended at an await) at the same time.
MaxActive == 2

\* Python's None, for the object references _acme, _snitun and _token.
None == 0
\* Python's None, for _snitun_server (a string otherwise).
NoServer == "None"
\* resp.status of a successful backend call.
HTTP_OK == 200
\* snitun_port passed to SniTunClientAioHttp.
SnitunPort == 443

Tasks == 1..MaxCalls
Statuses == {200, 500}
Tokens == {"T1", "T2"}
\* The bodies async_remote_register can answer with.
Registrations ==
    { [domain |-> "d1.ui.nabu.casa", email |-> "a@b.com", server |-> "relay1"],
      [domain |-> "d2.ui.nabu.casa", email |-> "c@d.com", server |-> "relay2"] }
NoData == [domain |-> "", email |-> "", server |-> NoServer]
NoKey == <<"none", 0>>

VARIABLES
    acme,           \* self._acme: index into acmes, or None
    snitun,         \* self._snitun: index into clients, or None
    token,          \* self._token
    snitun_server,  \* self._snitun_server
    acmes,          \* the AcmeHandler objects still referenced, by constructing call
    clients,        \* the SniTunClientAioHttp objects still referenced, likewise
    lost,           \* what became of the clients no longer referenced
    task,           \* the calls: kind, position and locals of each
    nCalls,         \* number of calls made so far
    nKeys,          \* number of key sets generate_aes_keyset has produced
    tokenReqs,      \* the async_remote_token requests sent: (call, key, iv)
    connects,       \* the connect calls made: (call, client, token, key, iv)
    ret,            \* the call that ended in the last step, with its outcome
    loadedOk        \* a load_backend returned normally, no close_backend since it began

vars == <<acme, snitun, token, snitun_server, acmes, clients, lost, task, nCalls,
          nKeys, tokenReqs, connects, ret, loadedOk>>

\* The number of calls in progress.
Active == Cardinality({u \in Tasks : task[u].kind \in {"load", "close", "handle"}})

mgr == <<acme, snitun, token, snitun_server>>

\* A call that has not been made yet.
Idle ==
    [kind |-> "idle", pc |-> "idle", result |-> "", cause |-> "",
     data |-> NoData, obj |-> None, key |-> NoKey, iv |-> NoKey,
     sawClose |-> FALSE, sawLoad |-> FALSE]

\* A call that has ended: its frame is gone.
Done == [Idle EXCEPT !.kind = "done", !.pc = "done"]

\* No call ended in the last step.
NoRet == [call |-> 0, kind |-> "", result |-> "", cause |-> ""]

\* RemoteUI.__init__
Init ==
    /\ acme = None
    /\ snitun = None
    /\ token = None
    /\ snitun_server = NoServer
    /\ acmes = <<>>
    /\ clients = <<>>
    /\ lost = {}
    /\ task = [t \in Tasks |-> Idle]
    /\ nCalls = 0
    /\ nKeys = 0
    /\ tokenReqs = {}
    /\ connects = {}
    /\ ret = NoRet
    /\ loadedOk = FALSE

\* The frame of a call as it ends: it returned normally or raised `res`.
Finish(rec, res, why) == [rec EXCEPT !.pc = "done", !.result = res, !.cause = why]

\* Call t took a step of its coroutine and its frame became `rec`.
\* `disturbs` says whether the step belongs to a call that works on the
\* references (a close_backend, or a load_backend past its guard).
\* Bookkeeping: a load_backend in progress remembers whether a close_backend
\* or another load_backend ran meanwhile; ret is the call that just ended.
Step(t, rec, disturbs) ==
    /\ task' = [u \in Tasks |->
            IF u = t THEN (IF rec.pc = "done" THEN Done ELSE rec)
            ELSE IF disturbs /\ task[u].kind = "load" /\ rec.kind = "close"
                THEN [task[u] EXCEPT !.sawClose = TRUE]
            ELSE IF disturbs /\ task[u].kind = "load" /\ rec.kind = "load"
                THEN [task[u] EXCEPT !.sawLoad = TRUE]
            ELSE task[u]]
    /\ ret' = IF rec.pc = "done"
              THEN [call |-> t, kind |-> rec.kind, result |-> rec.result,
                    cause |-> rec.cause]
              ELSE NoRet
    /\ loadedOk' =
            IF rec.kind = "close" THEN FALSE
            ELSE IF rec.kind = "load" /\ rec.pc = "done" /\ rec.result = "returned"
                    /\ ~rec.sawClose
                THEN TRUE
            ELSE loadedOk

\* The objects left after a step that made them `am` and `cl`: an object
\* that neither the manager nor a suspended call refers to any more is
\* garbage.  A call awaiting a method of self._acme or self._snitun holds
\* that object; a call in the executor holds only the two certificate
\* paths, not the handler.  Of a client that goes, `lost` keeps whether its tunnel runs
\* and whether stop was ever called on it.
Collect(am, cl) ==
    LET liveA == {a \in DOMAIN am :
                    \/ a = acme'
                    \/ \E u \in Tasks : /\ task'[u].pc \in {"is_valid", "issue"}
                                         /\ task'[u].obj = a}
        liveC == {c \in DOMAIN cl :
                    \/ c = snitun'
                    \/ \E u \in Tasks : /\ task'[u].pc \in {"start", "stop", "connect"}
                                         /\ task'[u].obj = c}
    IN /\ acmes' = [a \in liveA |-> am[a]]
       /\ clients' = [c \in liveC |-> cl[c]]
       /\ lost' = lost \cup {[state |-> cl[c].state, stopped |-> cl[c].stopCalls > 0] :
                                c \in DOMAIN cl \ liveC}

Unloaded == acme = None /\ snitun = None

----------------------------------------------------------------------------
\* load_backend

\* Mutant: the guard against a duplicate connected signal is missing.
AlreadyLoaded_NoGuard == FALSE

\* `if self._snitun: return`
AlreadyLoaded == snitun # None

\* The call up to `await cloud_api.async_remote_register(self.cloud)`.
LoadBackendCall(t) ==
    /\ t = nCalls + 1
    /\ Active < MaxActive
    /\ t \in Tasks
    /\ nCalls' = t
    /\ LET rec == [Idle EXCEPT !.kind = "load"] IN
       IF AlreadyLoaded
       THEN Step(t, Finish(rec, "returned", "guard"), FALSE)
       ELSE Step(t, [rec EXCEPT !.pc = "register"], TRUE)
    /\ UNCHANGED <<mgr, acmes, clients, lost, nKeys, tokenReqs, connects>>

\* async_timeout.timeout(10) expires: asyncio.TimeoutError leaves the block
\* and nothing in load_backend catches it.
RegisterTimeout(t) ==
    /\ task[t].kind = "load" /\ task[t].pc = "register"
    /\ Step(t, Finish(task[t], "TimeoutError", "timeout"), TRUE)
    /\ UNCHANGED <<mgr, acmes, clients, lost, nCalls, nKeys, tokenReqs, connects>>

\* The AcmeHandler constructed from the registration data.
NewAcme(reg) == [domain |-> reg.domain, email |-> reg.email, valid |-> FALSE]

\* The registration answers inside the timeout block: status check, up to
\* `data = await resp.json()`.
RegisterResponse(t, status) ==
    /\ task[t].kind = "load" /\ task[t].pc = "register"
    /\ Step(t,
            IF status # HTTP_OK
            THEN Finish(task[t], "RemoteBackendError", "status")
            ELSE [task[t] EXCEPT !.pc = "reg_json"],
            TRUE)
    /\ UNCHANGED <<mgr, acmes, clients, lost, nCalls, nKeys, tokenReqs, connects>>

\* resp.json() delivers the registration data: the AcmeHandler is
\* constructed and assigned, up to `await self._acme.is_valid_certificate()`.
RegisterJson(t, reg) ==
    /\ task[t].kind = "load" /\ task[t].pc = "reg_json"
    /\ acme' = t
    /\ snitun' = snitun
    /\ Step(t, [task[t] EXCEPT !.pc = "is_valid", !.data = reg, !.obj = t], TRUE)
    /\ Collect(acmes @@ (t :> NewAcme(reg)), clients)
    /\ UNCHANGED <<token, snitun_server, nCalls, nKeys, tokenReqs, connects>>

\* _create_context up to `await self.cloud.run_executor(...)`: reading
\* self._acme.path_fullchain raises AttributeError when self._acme is None.
CreateContext(t) ==
    IF acme = None
    THEN Finish(task[t], "AttributeError", "noref")
    ELSE [task[t] EXCEPT !.pc = "context", !.obj = acme]

\* Mutant: a certificate is issued whatever the validity check answered.
NeedsIssue_Always(valid) == TRUE

\* `if not await self._acme.is_valid_certificate():`
NeedsIssue(valid) == ~valid

\* is_valid_certificate answers; when invalid, up to
\* `await self._acme.issue_certificate()`, else into _create_context.
IsValidResult(t, valid) ==
    /\ task[t].kind = "load" /\ task[t].pc = "is_valid"
    /\ Step(t,
            IF NeedsIssue(valid)
            THEN IF acme = None
                 THEN Finish(task[t], "AttributeError", "noref")
                 ELSE [task[t] EXCEPT !.pc = "issue", !.obj = acme]
            ELSE CreateContext(t),
            TRUE)
    /\ UNCHANGED mgr
    /\ Collect(IF valid THEN [acmes EXCEPT ![task[t].obj].valid = TRUE] ELSE acmes,
               clients)
    /\ UNCHANGED <<nCalls, nKeys, tokenReqs, connects>>

\* issue_certificate ends: issued, or raises its certificate error.
IssueResult(t, ok) ==
    /\ task[t].kind = "load" /\ task[t].pc = "issue"
    /\ IF ok
       THEN /\ Step(t, CreateContext(t), TRUE)
            /\ UNCHANGED mgr
            /\ Collect([acmes EXCEPT ![task[t].obj].valid = TRUE], clients)
       ELSE /\ Step(t, Finish(task[t], "CertificateError", "issue"), TRUE)
            /\ UNCHANGED mgr
            /\ Collect(acmes, clients)
    /\ UNCHANGED <<nCalls, nKeys, tokenReqs, connects>>

\* The SniTunClientAioHttp constructed for the registered server.
NewClient(reg) ==
    [server |-> reg.server, port |-> SnitunPort, state |-> "created", stopCalls |-> 0]

\* Mutant: the wrong field of the registration data is recorded.
RecordedServer_Domain(reg) == reg.domain

\* `self._snitun_server = data["server"]`
RecordedServer(reg) == reg.server

\* load_cert_chain ends in the executor: on success the client is
\* constructed and assigned, the server recorded, up to
\* `await self._snitun.start()`.
ContextResult(t, ok) ==
    /\ task[t].kind = "load" /\ task[t].pc = "context"
    /\ IF ok
       THEN /\ snitun' = t
            /\ snitun_server' = RecordedServer(task[t].data)
            /\ acme' = acme
            /\ Step(t, [task[t] EXCEPT !.pc = "start", !.obj = t], TRUE)
            /\ Collect(acmes, clients @@ (t :> NewClient(task[t].data)))
       ELSE /\ Step(t, Finish(task[t], "SSLError", "context"), TRUE)
            /\ UNCHANGED <<acme, snitun, snitun_server>>
            /\ Collect(acmes, clients)
    /\ UNCHANGED <<token, nCalls, nKeys, tokenReqs, connects>>

\* start() ends: the tunnel runs, or start raises its transport error.
StartResult(t, ok) ==
    /\ task[t].kind = "load" /\ task[t].pc = "start"
    /\ IF ok
       THEN /\ Step(t, Finish(task[t], "returned", ""), TRUE)
            /\ UNCHANGED mgr
            /\ Collect(acmes, [clients EXCEPT ![task[t].obj].state = "started"])
       ELSE /\ Step(t, Finish(task[t], "TransportError", "start"), TRUE)
            /\ UNCHANGED mgr
            /\ Collect(acmes, [clients EXCEPT ![task[t].obj].state = "failed"])
    /\ UNCHANGED <<nCalls, nKeys, tokenReqs, connects>>

----------------------------------------------------------------------------
\* close_backend

\* `self._snitun = None`
ClosedSnitun == None

\* `self._acme = None`
ClosedAcme == None

\* The call: with a client held up to `await self._snitun.stop()`, else
\* straight to the two assignments.
CloseBackendCall(t) ==
    /\ t = nCalls + 1
    /\ Active < MaxActive
    /\ t \in Tasks
    /\ nCalls' = t
    /\ LET rec == [Idle EXCEPT !.kind = "close"] IN
       IF snitun # None
       THEN /\ Step(t, [rec EXCEPT !.pc = "stop", !.obj = snitun], TRUE)
            /\ UNCHANGED <<acme, snitun>>
            /\ Collect(acmes, [clients EXCEPT ![snitun].stopCalls = @ + 1])
       ELSE /\ snitun' = ClosedSnitun
            /\ acme' = ClosedAcme
            /\ Step(t, Finish(rec, "returned", ""), TRUE)
            /\ Collect(acmes, clients)
    /\ UNCHANGED <<token, snitun_server, nKeys, tokenReqs, connects>>

\* stop() ends: the tunnel is stopped and both references are cleared, or
\* stop raises its transport error, which nothing in close_backend
\* catches: the two assignments are skipped.
StopResult(t, ok) ==
    /\ task[t].kind = "close" /\ task[t].pc = "stop"
    /\ IF ok
       THEN /\ snitun' = ClosedSnitun
            /\ acme' = ClosedAcme
            /\ Step(t, Finish(task[t], "returned", ""), TRUE)
            /\ Collect(acmes, [clients EXCEPT ![task[t].obj].state = "stopped"])
       ELSE /\ UNCHANGED <<acme, snitun>>
            /\ Step(t, Finish(task[t], "TransportError", "stop"), TRUE)
            /\ Collect(acmes, clients)
    /\ UNCHANGED <<token, snitun_server, nCalls, nKeys, tokenReqs, connects>>

----------------------------------------------------------------------------
\* handle_connection_requests

\* Mutant: the precondition looks at the token marker only.
NotConnected_TokenOnly == token # None

\* `if not self._snitun or self._token`
NotConnected == snitun = None \/ token # None

\* Mutant: one key set, generated once and used by every call.
generate_aes_keyset_Static(n) == <<<<"key", 1>>, <<"iv", 1>>>>

\* generate_aes_keyset(): the n-th key set drawn from os.urandom.
generate_aes_keyset(n) == <<<<"key", n>>, <<"iv", n>>>>

\* The call up to `await cloud_api.async_remote_token(self.cloud, aes_key, aes_iv)`.
HandleCall(t) ==
    /\ t = nCalls + 1
    /\ Active < MaxActive
    /\ t \in Tasks
    /\ nCalls' = t
    /\ LET rec == [Idle EXCEPT !.kind = "handle"] IN
       IF NotConnected
       THEN /\ Step(t, Finish(rec, "RemoteNotConnected", "guard"), FALSE)
            /\ UNCHANGED <<nKeys, tokenReqs>>
       ELSE LET ks == generate_aes_keyset(nKeys + 1) IN
            /\ nKeys' = nKeys + 1
            /\ tokenReqs' = tokenReqs \cup {[call |-> t, key |-> ks[1], iv |-> ks[2]]}
            /\ Step(t, [rec EXCEPT !.pc = "token", !.key = ks[1],
                                              !.iv = ks[2]], FALSE)
    /\ UNCHANGED <<mgr, acmes, clients, lost, connects>>

\* async_timeout.timeout(10) expires around the token request.
TokenTimeout(t) ==
    /\ task[t].kind = "handle" /\ task[t].pc = "token"
    /\ Step(t, Finish(task[t], "TimeoutError", "timeout"), FALSE)
    /\ UNCHANGED <<mgr, acmes, clients, lost, nCalls, nKeys, tokenReqs, connects>>

\* The arguments of `self._snitun.connect(data["token"], aes_key, aes_iv)`.
ConnectArgs(t, tok) ==
    [call |-> t, client |-> snitun, token |-> tok, key |-> task[t].key, iv |-> task[t].iv]

\* Mutant: every answer of the token request is taken as a success.
TokenRejected_Never(status) == FALSE

\* `if resp.status != 200:`
TokenRejected(status) == status # HTTP_OK

\* Mutant: the token received is kept as the token marker.
TokenAfterExchange_Stored(tok) == 1

\* self._token after `data = await resp.json()` and the connect call:
\* the token goes to connect() only, self._token is not assigned.
TokenAfterExchange(tok) == token

\* The token request answers inside the timeout block: status check, up
\* to `data = await resp.json()`.
TokenResponse(t, status) ==
    /\ task[t].kind = "handle" /\ task[t].pc = "token"
    /\ Step(t,
            IF TokenRejected(status)
            THEN Finish(task[t], "RemoteBackendError", "status")
            ELSE [task[t] EXCEPT !.pc = "tok_json"],
            FALSE)
    /\ UNCHANGED <<mgr, acmes, clients, lost, nCalls, nKeys, tokenReqs, connects>>

\* resp.json() delivers the token, up to `await self._snitun.connect(...)`;
\* self._snitun is read here, and is None after a close_backend
\* (AttributeError).
TokenJson(t, tok) ==
    /\ task[t].kind = "handle" /\ task[t].pc = "tok_json"
    /\ token' = TokenAfterExchange(tok)
    /\ IF snitun = None
       THEN /\ Step(t, Finish(task[t], "AttributeError", "noref"), FALSE)
            /\ UNCHANGED connects
       ELSE /\ connects' = connects \cup {ConnectArgs(t, tok)}
            /\ Step(t, [task[t] EXCEPT !.pc = "connect", !.obj = snitun], FALSE)
    /\ UNCHANGED <<acme, snitun, snitun_server>>
    /\ UNCHANGED <<acmes, clients, lost, nCalls, nKeys, tokenReqs>>

\* connect() ends: authorised, or raises its transport error.
ConnectResult(t, ok) ==
    /\ task[t].kind = "handle" /\ task[t].pc = "connect"
    /\ Step(t, IF ok THEN Finish(task[t], "returned", "")
                                ELSE Finish(task[t], "TransportError", "connect"),
                       FALSE)
    /\ UNCHANGED mgr
    /\ Collect(acmes, clients)
    /\ UNCHANGED <<nCalls, nKeys, tokenReqs, connects>>

----------------------------------------------------------------------------

\* A call of one of the three coroutines is made.
Call(t) ==
    \/ LoadBackendCall(t)
    \/ CloseBackendCall(t)
    \/ HandleCall(t)

\* A suspended call is resumed with what it awaited.
Resume(t) ==
    \/ RegisterTimeout(t)
    \/ \E s \in Statuses : RegisterResponse(t, s)
    \/ \E reg \in Registrations : RegisterJson(t, reg)
    \/ \E b \in BOOLEAN : IsValidResult(t, b)
    \/ \E b \in BOOLEAN : IssueResult(t, b)
    \/ \E b \in BOOLEAN : ContextResult(t, b)
    \/ \E b \in BOOLEAN : StartResult(t, b)
    \/ \E b \in BOOLEAN : StopResult(t, b)
    \/ TokenTimeout(t)
    \/ \E s \in Statuses : TokenResponse(t, s)
    \/ \E k \in Tokens : TokenJson(t, k)
    \/ \E b \in BOOLEAN : ConnectResult(t, b)

Next == \E t \in Tasks : Call(t) \/ Resume(t)

Spec == Init /\ [][Next]_vars

\* The same calls made one after the other: a call is only made when none
\* is in progress.  Every behaviour of SeqSpec is a behaviour of Spec.
SeqNext == \E t \in Tasks : (Active = 0 /\ Call(t)) \/ Resume(t)

SeqSpec == Init /\ [][SeqNext]_vars

\* The relay-server-address accessor: the snitun_server property.
SnitunServerProperty == snitun_server

TypeOK ==
    /\ acme \in {None} \cup DOMAIN acmes
    /\ snitun \in {None} \cup DOMAIN clients
    /\ token = None
    /\ snitun_server \in {NoServer} \cup {r.server : r \in Registrations}
    /\ nCalls \in 0..MaxCalls
    /\ \A t \in Tasks : task[t].kind = "idle" <=> t > nCalls
    /\ ret.call \in 0..nCalls
----------------------------------------------------------------------------
\* The claims.  ret names the call that ended in the last step, so a state
\* with ret.kind = k is the state a call of coroutine k has just left behind.

\* The handle_connection_requests calls suspended in their token exchange.
InExchange ==
    {t \in Tasks : task[t].kind = "handle" /\ task[t].pc \in {"token", "tok_json", "connect"}}

\* C1: when a close_backend call has returned (normally: one that raised
\* is C9's matter), the tunnel client reference and the certificate handler
\* reference are None and the snitun_server property returns None.
C1_CloseClearsAll ==
    (ret.kind = "close" /\ ret.result = "returned") =>
        /\ snitun = None
        /\ acme = None
        /\ SnitunServerProperty = NoServer

\* C2: at most one token exchange is in flight per manager: a second
\* handle_connection_requests that starts during one is turned away.
C2_OneExchangeInFlight == Cardinality(InExchange) <= 1

\* C3: a load_backend called when an earlier load_backend has returned
\* normally, and no close_backend has run since that one began, is a no-op:
\* it returns at its guard without registering, checking or issuing a
\* certificate, or constructing and starting a client, and no manager state
\* changes.
C3_SecondLoadIsNoOp ==
    [][\A t \in Tasks :
        (loadedOk /\ LoadBackendCall(t)) =>
            /\ ret' = [call |-> t, kind |-> "load", result |-> "returned", cause |-> "guard"]
            /\ task'[t] = Done
            /\ UNCHANGED <<mgr, acmes, clients, lost>>]_vars

\* C3's case: loaded, tunnel running, and a further load_backend has just
\* returned at its guard.
C3_Witness ==
    /\ loadedOk
    /\ ret.kind = "load" /\ ret.cause = "guard" /\ ret.call >= 2
    /\ snitun # None /\ clients[snitun].state = "started"

\* C4: a handle_connection_requests called while no tunnel client is held
\* raises RemoteNotConnected at once, sends no token request and calls no
\* connect; a token request is only ever sent while a client is held.
C4_NoClientNoToken ==
    [][/\ \A t \in Tasks :
            (snitun = None /\ HandleCall(t)) =>
                /\ ret' = [call |-> t, kind |-> "handle",
                           result |-> "RemoteNotConnected", cause |-> "guard"]
                /\ task'[t] = Done
                /\ UNCHANGED <<tokenReqs, connects, nKeys>>
       /\ (tokenReqs' # tokenReqs => snitun # None)]_vars

\* C4's case: a request has just been turned away while a failed
\* load_backend had left a certificate handler but no client.
C4_Witness ==
    /\ ret.kind = "handle" /\ ret.result = "RemoteNotConnected"
    /\ snitun = None /\ acme # None

\* C5: when load_backend has raised RemoteBackendError (registration was
\* answered with a non-200 status), the manager is UNLOADED.
C5_BackendErrorLeavesUnloaded ==
    (ret.kind = "load" /\ ret.result = "RemoteBackendError") => Unloaded

\* C6: a call whose backend request timed out ends with the same error as
\* one whose request was answered with a non-200 status: RemoteBackendError.
C6_TimeoutIsBackendError ==
    ret.cause = "timeout" => ret.result = "RemoteBackendError"

\* C7: when a load_backend that did the work returns normally, and no other
\* load_backend or close_backend ran while it was in progress, the manager
\* holds the client this call constructed, for the server of this call's
\* registration on port 443, started and never stopped, and the
\* snitun_server property returns that server.
C7_LoadEndsTunnelActive ==
    [][\A t \in Tasks :
        (/\ task[t].pc = "start" /\ ~task[t].sawClose /\ ~task[t].sawLoad
         /\ ret'.call = t /\ ret'.result = "returned") =>
            /\ snitun' = t
            /\ t \in DOMAIN clients'
            /\ clients'[t] = [server |-> task[t].data.server, port |-> 443,
                              state |-> "started", stopCalls |-> 0]
            /\ SnitunServerProperty' = task[t].data.server
            /\ acme' # None]_vars

\* C7's case: the first call on a fresh manager was a load_backend and has
\* just returned normally with its tunnel running.
C7_Witness ==
    /\ ret = [call |-> 1, kind |-> "load", result |-> "returned", cause |-> ""]
    /\ snitun = 1 /\ clients[1].state = "started"
    /\ snitun_server = clients[1].server

\* C8: every connect call carries the token answered to that same call's
\* token request and the key and IV that call generated and sent with it;
\* no key or IV serves two calls.
C8_ConnectUsesOwnKeyset ==
    /\ [](/\ \A e \in connects :
                [call |-> e.call, key |-> e.key, iv |-> e.iv] \in tokenReqs
          /\ \A q1, q2 \in tokenReqs :
                q1.call # q2.call => (q1.key # q2.key /\ q1.iv # q2.iv)
          /\ \A q \in tokenReqs : q.key[1] = "key" /\ q.iv[1] = "iv")
    /\ [][\A t \in Tasks, k \in Tokens :
            (TokenJson(t, k) /\ connects' # connects) =>
                \E q \in tokenReqs :
                    /\ q.call = t
                    /\ connects' = connects \cup
                         {[call |-> t, client |-> snitun, token |-> k,
                           key |-> q.key, iv |-> q.iv]}]_vars

\* C8's case: two calls have each reached connect, with different tokens.
C8_Witness ==
    \E e1, e2 \in connects : e1.call # e2.call /\ e1.token # e2.token

\* C9: close_backend never raises and ends with both references None; with
\* no client held it calls no stop, with a client held it calls stop on
\* that client once, before clearing the references.
C9_CloseIsForgiving ==
    /\ [](ret.kind = "close" => (ret.result = "returned" /\ Unloaded))
    /\ [][\A t \in Tasks :
            /\ (CloseBackendCall(t) /\ snitun = None) =>
                    (ret'.call = t /\ clients' = clients /\ lost' = lost)
            /\ (CloseBackendCall(t) /\ snitun # None) =>
                    /\ ret' = NoRet
                    /\ task'[t].pc = "stop" /\ task'[t].obj = snitun
                    /\ snitun' = snitun
                    /\ clients' = [clients EXCEPT ![snitun].stopCalls = @ + 1]
            /\ (\E ok \in BOOLEAN : StopResult(t, ok)) =>
                    /\ ret'.call = t
                    /\ \A c \in DOMAIN clients' :
                          clients'[c].stopCalls = clients[c].stopCalls]_vars


\* C10: the snitun_server property is None unless a tunnel client is held
\* whose start has completed.
C10_ServerOnlyWhileActive ==
    SnitunServerProperty # NoServer =>
        (snitun # None /\ clients[snitun].state = "started")
\* C11: a handle_connection_requests that starts while a load_backend is
\* still in progress is turned away with RemoteNotConnected, and connect is
\* never called on a client whose start has not completed.
C11_NoRequestDuringLoad ==
    [][/\ \A t \in Tasks :
            (HandleCall(t) /\ \E u \in Tasks : task[u].kind = "load") =>
                ret'.result = "RemoteNotConnected"
       /\ (connects' # connects => clients[snitun].state = "started")]_vars

\* C12: the load_backend called next after a load_backend has raised is
\* not a no-op: it goes on to register.
C12_RetryAfterFailure ==
    [][\A t \in Tasks :
        (ret.kind = "load" /\ ret.result # "returned" /\ LoadBackendCall(t)) =>
            task'[t].pc = "register"]_vars

\* C13: whenever a tunnel client is held, a certificate handler is held
\* too and its certificate has been confirmed valid (is_valid_certificate
\* answered true, or issue_certificate completed).
C13_ClientImpliesValidCert ==
    snitun # None => (acme # None /\ acmes[acme].valid)

\* C14, for the first two calls: the first call is a load_backend, the
\* second a close_backend that was called and has returned while the load
\* was suspended, and nothing else is called; when the load then ends, no
\* tunnel client is held and none is running.
C14_CloseDuringLoadWins ==
    [][(/\ nCalls = 2 /\ task[2] = Done
        /\ task[1].kind = "load" /\ task[1].sawClose
        /\ ret'.call = 1) =>
            /\ snitun' = None
            /\ \A c \in DOMAIN clients' : clients'[c].state # "started"
            /\ \A l \in lost' : l.state # "started"]_vars

\* C15: a handle_connection_requests whose backend request did not time
\* out ends normally or with a not-connected, backend or transport error,
\* whatever close_backend does meanwhile: connect is never attempted on a
\* cleared reference.
C15_NoUseAfterTeardown ==
    (ret.kind = "handle" /\ ret.cause # "timeout") =>
        ret.result \in {"returned", "RemoteNotConnected", "RemoteBackendError",
                        "TransportError"}

\* C16: at most one load_backend at a time is past its guard (has
\* registered and goes on to construct a client), and no client whose
\* tunnel runs loses its last reference without stop having been called
\* on it.
C16_OneLoadPerCycle ==
    /\ Cardinality({t \in Tasks : task[t].kind = "load"}) <= 1
    /\ \A l \in lost : l.state = "started" => l.stopped
\* C17: issue_certificate is awaited only after is_valid_certificate
\* answered false, and always then for a load_backend that no
\* close_backend has disturbed; when issue_certificate raises, load_backend
\* ends with that certificate error, the manager state (client reference,
\* server address) is as it was and no client has been constructed.
C17_IssueOnlyWhenInvalid ==
    [][\A t \in Tasks :
        /\ (task[t].pc = "is_valid" /\ task'[t].pc # "is_valid") =>
              /\ \A b \in BOOLEAN :
                    (task'[t].pc = "issue" /\ IsValidResult(t, b)) => b = FALSE
              /\ (~task[t].sawClose /\ IsValidResult(t, FALSE)) =>
                    task'[t].pc = "issue"
        /\ (task[t].pc = "issue" /\ task'[t].pc # "issue") =>
              (IssueResult(t, FALSE) =>
                  /\ ret' = [call |-> t, kind |-> "load",
                             result |-> "CertificateError", cause |-> "issue"]
                  /\ task'[t] = Done
                  /\ UNCHANGED mgr
                  /\ DOMAIN clients' \subseteq DOMAIN clients)]_vars

\* A load_backend has just ended with the certificate error of a failed
\* issuance: no client is held and no server address recorded.
C17_Witness ==
    /\ ret.kind = "load" /\ ret.result = "CertificateError"
    /\ snitun = None /\ snitun_server = NoServer

\* C18: when the token request answers with a status other than 200, the
\* call ends with RemoteBackendError, connect is not called and the
\* manager state is as it was.
C18_TokenRejectedNoConnect ==
    [][\A t \in Tasks : (task[t].pc = "token" /\ task'[t].pc # "token") =>
        \A s \in Statuses \ {HTTP_OK} :
            TokenResponse(t, s) =>
                /\ ret' = [call |-> t, kind |-> "handle",
                           result |-> "RemoteBackendError", cause |-> "status"]
                /\ task'[t] = Done
                /\ connects' = connects
                /\ UNCHANGED mgr]_vars

\* A handle_connection_requests has just ended with the backend error of
\* a rejected token request; the client is still held and nothing was
\* passed to connect for that call.
C18_Witness ==
    /\ ret.kind = "handle" /\ ret.result = "RemoteBackendError" /\ ret.cause = "status"
    /\ snitun # None
    /\ \A c \in connects : c.call # ret.call

\* C19: no step of handle_connection_requests changes the manager state
\* (a step that changes it is a step of another operation), and a call
\* made while a client is held passes the precondition check and sends
\* its token request.
C19_HandleLeavesStateAlone ==
    [][/\ UNCHANGED mgr \/
          \A t \in Tasks :
              ~(\/ HandleCall(t)
                \/ TokenTimeout(t)
                \/ (\E s \in Statuses : TokenResponse(t, s))
                \/ (\E k \in Tokens : TokenJson(t, k))
                \/ (\E ok \in BOOLEAN : ConnectResult(t, ok)))
       /\ \A t \in Tasks :
              (snitun # None /\ HandleCall(t)) => task'[t].pc = "token"]_vars

\* A handle_connection_requests has just returned normally and an earlier
\* call had its connect too: the later call was accepted after the first.
C19_Witness ==
    /\ ret.kind = "handle" /\ ret.result = "returned"
    /\ \E c \in connects : c.call < ret.call
    /\ \E c \in connects : c.call = ret.call
====
